---- MODULE Spec2Model ----
(***************************************************************************)
(* A model of the Snakeer package manager's resolution and installation   *)
(* engine: snakeer/utils.py (version specs and selection),                 *)
(* snakeer/config.py (the State Store) and snakeer/installer.py            *)
(* (failover, download, extraction, recursive installation).              *)
(*                                                                         *)
(* Texts (version strings, spec strings) are sequences of characters, each *)
(* character a one-letter string; the word "latest" is one token.          *)
(***************************************************************************)
EXTENDS Integers, Sequences, FiniteSets, TLC

\* ------------------------------------------------------------------ bounds

\* Number of package names the registry holds: 1..NPkg.
NPkg == 2
\* Longest list of available versions the selector is applied to.
MaxAvail == 3
\* Most dependencies one package's metadata.json declares.
MaxDeps == 1
\* Most commands run on one project.
MaxCmds == 2
\* Package names and declared dependencies per metadata.json of the registry
\* with shared dependencies.
NShared == 3
MaxSharedDeps == 2
\* Most entries of one directory of an extracted archive.
MaxEntries == 2

Pkg == 1..(IF NPkg > NShared THEN NPkg ELSE NShared)

\* ------------------------------------------------------------------- texts

Digits == {"0", "1", "2", "3", "4", "5", "6", "7", "8", "9"}

DigitVal(c) ==
    CASE c = "0" -> 0 [] c = "1" -> 1 [] c = "2" -> 2 [] c = "3" -> 3
      [] c = "4" -> 4 [] c = "5" -> 5 [] c = "6" -> 6 [] c = "7" -> 7
      [] c = "8" -> 8 [] c = "9" -> 9

\* str.strip(): leading and trailing blanks removed.
RECURSIVE lstrip(_)
lstrip(s) == IF s # <<>> /\ Head(s) = " " THEN lstrip(Tail(s)) ELSE s

RECURSIVE rstrip(_)
rstrip(s) ==
    IF s # <<>> /\ s[Len(s)] = " " THEN rstrip(SubSeq(s, 1, Len(s) - 1)) ELSE s

strip(s) == rstrip(lstrip(s))

\* str.startswith(prefix)
startswith(s, p) == Len(s) >= Len(p) /\ SubSeq(s, 1, Len(p)) = p

\* s[n:]
drop(s, n) == SubSeq(s, n + 1, Len(s))

\* str.split("."): the segments between dots; always at least one segment.
RECURSIVE split_from(_, _, _)
split_from(s, i, cur) ==
    IF i > Len(s) THEN <<cur>>
    ELSE IF s[i] = "." THEN <<cur>> \o split_from(s, i + 1, <<>>)
    ELSE split_from(s, i + 1, Append(cur, s[i]))

split(s) == split_from(s, 1, <<>>)

\* int(x) raises ValueError unless x, blanks stripped, is a non-empty digit string.
int_raises(x) ==
    LET t == strip(x) IN t = <<>> \/ \E i \in 1..Len(t) : t[i] \notin Digits

RECURSIVE int_digits(_, _)
int_digits(t, acc) ==
    IF t = <<>> THEN acc ELSE int_digits(Tail(t), 10 * acc + DigitVal(Head(t)))

int(x) == int_digits(strip(x), 0)

\* [int(x) for x in v.split(".")]
parts_raise(v) == \E i \in 1..Len(split(v)) : int_raises(split(v)[i])

parts(v) == [i \in 1..Len(split(v)) |-> int(split(v)[i])]

\* while len(parts) < 3: parts.append(0)
RECURSIVE pad(_)
pad(p) == IF Len(p) < 3 THEN pad(Append(p, 0)) ELSE p

\* Python's order on lists and tuples of integers: a >= b.
RECURSIVE seq_ge(_, _)
seq_ge(a, b) ==
    IF b = <<>> THEN TRUE
    ELSE IF a = <<>> THEN FALSE
    ELSE IF Head(a) # Head(b) THEN Head(a) > Head(b)
    ELSE seq_ge(Tail(a), Tail(b))

seq_gt(a, b) == seq_ge(a, b) /\ a # b

\* ------------------------------------------------------- version spec model

Latest == <<"latest">>

\* parse_version_spec(spec) -> (operator, version)
parse_version_spec(spec) ==
    LET s == strip(spec) IN
    IF startswith(s, <<">", "=">>) THEN [op |-> ">=", version |-> drop(s, 2)]
    ELSE IF startswith(s, <<"^">>) THEN [op |-> "^", version |-> drop(s, 1)]
    ELSE IF startswith(s, <<"~">>) THEN [op |-> "~", version |-> drop(s, 1)]
    ELSE IF s = Latest THEN [op |-> "latest", version |-> <<>>]
    ELSE [op |-> "=", version |-> s]

\* parse_version_spec has no raise statement and calls only str.strip,
\* str.startswith, slices and ==, none of which raises on a str: it returns
\* for every text.
parse_version_spec_raises(spec) == FALSE

\* version_satisfies raises ValueError when a range operator meets a version
\* or spec version with a component int() rejects.
version_satisfies_raises(version, spec) ==
    LET p == parse_version_spec(spec) IN
    /\ p.op \notin {"latest", "="}
    /\ parts_raise(version) \/ parts_raise(p.version)

\* Mutant: '^' does not pin the major component.
version_satisfies_unpinned(version, spec) ==
    LET p == parse_version_spec(spec) IN
    IF p.op = "latest" THEN TRUE
    ELSE IF p.op = "=" THEN version = p.version
    ELSE LET v_parts == pad(parts(version))
             sv_parts == pad(parts(p.version))
         IN  IF p.op \in {">=", "^"} THEN seq_ge(v_parts, sv_parts)
             ELSE /\ v_parts[1] = sv_parts[1]
                  /\ v_parts[2] = sv_parts[2]
                  /\ seq_ge(v_parts, sv_parts)

\* version_satisfies(version, spec), where it does not raise.
version_satisfies(version, spec) ==
    LET p == parse_version_spec(spec) IN
    IF p.op = "latest" THEN TRUE
    ELSE IF p.op = "=" THEN version = p.version
    ELSE LET v_parts == pad(parts(version))
             sv_parts == pad(parts(p.version))
         IN  IF p.op = ">=" THEN seq_ge(v_parts, sv_parts)
             ELSE IF p.op = "^" THEN
                 v_parts[1] = sv_parts[1] /\ seq_ge(v_parts, sv_parts)
             ELSE IF p.op = "~" THEN
                 /\ v_parts[1] = sv_parts[1]
                 /\ v_parts[2] = sv_parts[2]
                 /\ seq_ge(v_parts, sv_parts)
             ELSE FALSE

\* --------------------------------------------------------- version selector

\* version_key(v): the zero-padded tuple of v's components.
version_key(v) == pad(parts(v))

\* sorted(..., key=version_key, reverse=True) is stable: of two versions with
\* equal keys the one earlier in the input stays first.
\* Mutant: the sort is ascending.
RECURSIVE insert_asc(_, _)
insert_asc(sorted, v) ==
    IF sorted = <<>> THEN <<v>>
    ELSE IF seq_gt(version_key(Head(sorted)), version_key(v))
         THEN <<v>> \o sorted
         ELSE <<Head(sorted)>> \o insert_asc(Tail(sorted), v)

RECURSIVE insert_desc(_, _)
insert_desc(sorted, v) ==
    IF sorted = <<>> THEN <<v>>
    ELSE IF seq_gt(version_key(v), version_key(Head(sorted)))
         THEN <<v>> \o sorted
         ELSE <<Head(sorted)>> \o insert_desc(Tail(sorted), v)

RECURSIVE sorted_desc_from(_, _, _)
sorted_desc_from(available, i, acc) ==
    IF i > Len(available) THEN acc
    ELSE sorted_desc_from(available, i + 1, insert_desc(acc, available[i]))

sorted_versions(available) == sorted_desc_from(available, 1, <<>>)

\* The first version of a list that satisfies spec: <<v>>, or <<>> for None.
RECURSIVE first_satisfying(_, _)
first_satisfying(versions, spec) ==
    IF versions = <<>> THEN <<>>
    ELSE IF version_satisfies(Head(versions), spec) THEN <<Head(versions)>>
    ELSE first_satisfying(Tail(versions), spec)

\* find_best_version raises ValueError when the sort key of some available
\* version raises, or when version_satisfies raises on the first version tried.
find_best_version_raises(available, spec) ==
    \/ \E i \in 1..Len(available) : parts_raise(available[i])
    \/ /\ available # <<>>
       /\ version_satisfies_raises(sorted_versions(available)[1], spec)

\* find_best_version(available_versions, spec), where it does not raise:
\* <<v>> for a version, <<>> for None.
find_best_version(available, spec) ==
    first_satisfying(sorted_versions(available), spec)

\* ------------------------------------------------------------ environment

\* Version and spec texts the registry, the metadata and the user supply.
V100 == <<"1", ".", "0", ".", "0">>
V200 == <<"2", ".", "0", ".", "0">>
VBeta == <<"1", ".", "0", ".", "x">>
GE150 == <<">", "=", "1", ".", "5", ".", "0">>
GEBad == <<">", "=", "x">>

\* What a backend's version listing may hold (fetch_versions' return value).
RegistryLists == {<<>>, <<V200, V100>>, <<V100, V200>>, <<V100, VBeta>>}

\* Spec texts given on the command line or declared in metadata.json.
UserSpecs == {Latest, V100, GEBad}
DepSpecs == {GE150}

\* The "dependencies" of a metadata.json, in the file's key order: sequences
\* of at most reg.maxdeps entries with distinct names of the registry.
RECURSIVE DepLists(_, _)
DepLists(names, n) ==
    IF n = 0 THEN {<<>>}
    ELSE DepLists(names, n - 1) \cup
         { Append(d, [name |-> p, spec |-> s]) :
             d \in {x \in DepLists(names, n - 1) : Len(x) = n - 1},
             p \in names, s \in DepSpecs }

DepChoices(reg) ==
    {d \in DepLists(reg.names, reg.maxdeps) :
        \A i, j \in 1..Len(d) : i # j => d[i].name # d[j].name}

\* ------------------------------------------------------------------- state

VARIABLES
    cfgDeps,      \* Config "snakeer_dependencies": ordered name -> spec text
    cfgInst,      \* Config "installed_dependencies_versions": name -> <<v>> or <<>>
    modules,      \* snakeer_modules/<name>: the directory's state and metadata
    current_api,  \* Installer.current_api
    stack,        \* the call stack below the command, innermost frame last
    cmd,          \* the command being run and how it ended
    cmdsLeft,     \* commands that may still be started
    ret,          \* what the install_package call that returned last returned
    netCalls,     \* try_apis operations made in this command
    setCount,     \* set_installed_version calls per package in this command
    lastTry,      \* the backends the last try_apis operation tried, and how each answered
    attempted,    \* names install_all passed to install_package in this command
    skipped,      \* names install_all skipped in this command
    pin,          \* the selector's inputs (selector specification)
    pout,         \* the selector's result (selector specification)
    registry,     \* the package names the registry holds, and how many
                  \* dependencies a metadata.json declares at most
    procs,        \* simultaneous invocations on one project directory: whether
                  \* project_packages.json exists, and each process's Config
    heap          \* Config instances of one process: the dict objects, what
                  \* each instance's _config refers to, and the project files

vars == <<cfgDeps, cfgInst, modules, current_api, stack, cmd, cmdsLeft, ret, netCalls,
          setCount, lastTry, attempted, skipped, pin, pout, registry, procs, heap>>

confVars == <<cfgDeps, cfgInst>>
histVars == <<netCalls, setCount, lastTry, attempted, skipped>>
pureVars == <<pin, pout, cmdsLeft, registry, procs, heap>>

\* --------------------------------------------------------------- Config

\* Config.get_installed_package(name) is None
not_recorded(inst, name) == inst[name] = <<>>

\* Config.is_installed(name), no version given
is_installed(inst, name) == ~not_recorded(inst, name)

\* Config.set_installed_version(name, version)
set_installed_version(inst, name, version) ==
    [inst EXCEPT ![name] = <<version>>]

dep_names(deps) == {deps[i].name : i \in 1..Len(deps)}

dep_index(deps, name) == CHOOSE i \in 1..Len(deps) : deps[i].name = name

\* Config.get_requested_version(name): <<spec>>, or <<>> for None
get_requested_version(deps, name) ==
    IF name \in dep_names(deps) THEN <<deps[dep_index(deps, name)].spec>> ELSE <<>>

\* Config.add_dependency(name, version_spec): a dict assignment keeps the
\* position of a key already there and appends a new one.
add_dependency(deps, name, spec) ==
    IF name \in dep_names(deps)
    THEN [deps EXCEPT ![dep_index(deps, name)].spec = spec]
    ELSE Append(deps, [name |-> name, spec |-> spec])

RECURSIVE without(_, _)
without(deps, name) ==
    IF deps = <<>> THEN <<>>
    ELSE IF Head(deps).name = name THEN without(Tail(deps), name)
    ELSE <<Head(deps)>> \o without(Tail(deps), name)

\* ------------------------------------------------------------- failover

VERCEL_API == "vercel"
NETLIFY_API == "netlify"

\* apis = [self.VERCEL_API, self.NETLIFY_API]
apis == <<VERCEL_API, NETLIFY_API>>

Raised == [raised |-> TRUE, value |-> <<>>]
Returned(v) == [raised |-> FALSE, value |-> v]

\* The loop of _try_apis from the i-th backend on; out[api] is what the
\* operation does against api.
RECURSIVE try_from(_, _, _, _)
try_from(out, cur, i, tried) ==
    LET api == apis[i]
        now == Append(tried, [api |-> api, raised |-> out[api].raised])
    IN  IF ~out[api].raised
        THEN [raised |-> FALSE, value |-> out[api].value, tried |-> now,
              current_api |-> api]
        ELSE IF api = apis[Len(apis)]
        THEN [raised |-> TRUE, value |-> <<>>, tried |-> now, current_api |-> cur]
        ELSE try_from(out, cur, i + 1, now)

\* Mutant: no failover, the primary's failure is the operation's.
try_apis_primary_only(out, cur) ==
    IF ~out[apis[1]].raised THEN try_from(out, cur, 1, <<>>)
    ELSE [raised |-> TRUE, value |-> <<>>,
          tried |-> <<[api |-> apis[1], raised |-> TRUE]>>, current_api |-> cur]

\* Mutant: the backend that served last is tried first.
try_apis_sticky(out, cur) ==
    IF cur = apis[1] THEN try_from(out, cur, 1, <<>>)
    ELSE IF ~out[cur].raised
    THEN [raised |-> FALSE, value |-> out[cur].value,
          tried |-> <<[api |-> cur, raised |-> FALSE]>>, current_api |-> cur]
    ELSE try_from(out, cur, 1, <<[api |-> cur, raised |-> TRUE]>>)

\* Mutant: a backend that failed is tried once more before the next one.
try_apis_retry(out, cur) ==
    IF ~out[apis[1]].raised THEN try_from(out, cur, 1, <<>>)
    ELSE try_from(out, cur, 1, <<[api |-> apis[1], raised |-> TRUE]>>)

\* _try_apis(operation): cur is self.current_api when it is called.
try_apis(out, cur) == try_from(out, cur, 1, <<>>)

\* What an operation may do against the two backends, outcomes drawn from
\* S: the secondary is asked only when the primary raised.
Answers(S) ==
    {[a \in {VERCEL_API, NETLIFY_API} |-> IF a = VERCEL_API THEN o ELSE Raised] :
        o \in S \ {Raised}}
    \cup {[a \in {VERCEL_API, NETLIFY_API} |-> IF a = VERCEL_API THEN Raised ELSE o] :
        o \in S}

\* What fetch_versions does against one backend: raise, or return a list.
ListOutcomes == {Raised} \cup {Returned(l) : l \in RegistryLists}

\* What fetch_and_download does against one backend: raise, or return the
\* cache file, of which the model keeps the extension.
ArchiveKinds == {"zip", "targz", "other"}
DownloadOutcomes == {Raised} \cup {Returned(k) : k \in ArchiveKinds}

\* An operation's answers with the values left out
Flags(out) == [a \in DOMAIN out |-> [raised |-> out[a].raised, value |-> <<>>]]

NoTry == [kind |-> "none", before |-> VERCEL_API, tried |-> <<>>,
          raised |-> FALSE, answers |-> [a \in {VERCEL_API, NETLIFY_API} |-> Raised],
          versions |-> <<>>, archive |-> "none"]

\* lastTry after a try_apis operation of this kind with answers out and
\* result r: what current_api was before it, the backends tried in order
\* with how each ended, what the backends had to answer (the lists of a
\* listing in full), the version list a listing returned and whether the
\* name of the cache file a download returned ends in .zip or .tar.gz
TryRecord(kind, before, out, r) ==
    [kind |-> kind, before |-> before, tried |-> r.tried, raised |-> r.raised,
     answers |-> IF kind = "versions" THEN out ELSE Flags(out),
     versions |-> IF kind = "versions" THEN r.value ELSE <<>>,
     archive |-> IF kind # "download" \/ r.raised THEN "none"
                 ELSE IF r.value \in {"zip", "targz"} THEN "supported"
                 ELSE "unsupported"]

\* ------------------------------------------------------------- call stack

Frame(fn, name, spec, pc) ==
    [fn |-> fn, name |-> name, spec |-> spec, pc |-> pc, available |-> <<>>,
     version |-> <<>>, installed |-> <<>>, todo |-> <<>>,
     force |-> FALSE]

Top == stack[Len(stack)]
Pop == SubSeq(stack, 1, Len(stack) - 1)
Running == stack # <<>>
At(fn, pc) == Running /\ Top.fn = fn /\ Top.pc = pc

NoRet == [name |-> 0, spec |-> <<>>, ok |-> FALSE, msg |-> "none"]
Idle == [kind |-> "none", name |-> 0, spec |-> <<>>, force |-> FALSE,
         status |-> "idle", satisfied |-> FALSE, fresh |-> FALSE,
         failed |-> FALSE]

\* The exception leaves every frame: no frame of the installer catches it,
\* cli.main's handler reports it and exits with status 1.
Raise ==
    /\ stack' = <<>>
    /\ cmd' = [cmd EXCEPT !.status = "raised", !.failed = TRUE]

\* The status cli.main ends with: sys.exit(1) in its exception handler,
\* and otherwise the end of main, whatever install_package returned.
exit_status == IF cmd.status = "raised" THEN 1 ELSE 0

\* The stack after the innermost frames are left: the command has returned
\* when none remains.
Leave(rest, ok) ==
    /\ stack' = rest
    /\ cmd' = [cmd EXCEPT
                 !.status = IF rest = <<>> THEN "returned" ELSE @,
                 !.failed = @ \/ ~ok]

\* install_package returns ok, having printed msg
ReturnFrom(frames, f, ok, msg) ==
    /\ Leave(frames, ok)
    /\ ret' = [name |-> f.name, spec |-> f.spec, ok |-> ok, msg |-> msg]

\* ------------------------------------------------------- install_package

\* "if self.config.is_installed(name): installed_version = ...; if
\* installed_version and (version_spec == "latest" or version_satisfies(...))"
check_raises(inst, name, spec) ==
    /\ is_installed(inst, name)
    /\ inst[name][1] # <<>>
    /\ spec # Latest
    /\ version_satisfies_raises(inst[name][1], spec)

\* Mutant: the check passes for 'latest' only.
already_installed_latest_only(inst, name, spec) ==
    /\ is_installed(inst, name)
    /\ inst[name][1] # <<>>
    /\ spec = Latest

already_installed(inst, name, spec) ==
    /\ is_installed(inst, name)
    /\ inst[name][1] # <<>>
    /\ spec = Latest \/ version_satisfies(inst[name][1], spec)

\* install_package, lines 189-194: the check for an installed version
InstallCheck ==
    /\ At("install_package", "check")
    /\ IF check_raises(cfgInst, Top.name, Top.spec)
       THEN Raise /\ UNCHANGED ret
       ELSE IF already_installed(cfgInst, Top.name, Top.spec)
       THEN ReturnFrom(Pop, Top, TRUE, "already installed")
       ELSE /\ stack' = [stack EXCEPT ![Len(stack)].pc = "discover"]
            /\ UNCHANGED <<cmd, ret>>
    /\ UNCHANGED <<confVars, modules, current_api, histVars, pureVars>>

\* "version = available_versions[0]" or find_best_version(...)
select_raises(available, spec) ==
    spec # Latest /\ find_best_version_raises(available, spec)

\* Mutant: the first listed version is taken for every spec.
select_version_first(available, spec) == <<available[1]>>

select_version(available, spec) ==
    IF spec = Latest THEN <<available[1]>> ELSE find_best_version(available, spec)

\* _get_package_versions(name): try_apis(fetch_versions) or [], and [] when
\* try_apis raised
get_package_versions(r) == IF r.raised THEN <<>> ELSE r.value

\* install_package, lines 196-209: version discovery and selection
InstallDiscover ==
    /\ At("install_package", "discover")
    /\ \E out \in Answers(ListOutcomes) :
         LET r == try_apis(out, current_api)
             available == get_package_versions(r)
         IN  /\ current_api' = r.current_api
             /\ lastTry' = TryRecord("versions", current_api, out, r)
             /\ netCalls' = netCalls + 1
             /\ IF available = <<>>
                THEN ReturnFrom(Pop, Top, FALSE, "not found in registry")
                ELSE IF select_raises(available, Top.spec)
                THEN Raise /\ UNCHANGED ret
                ELSE LET version == select_version(available, Top.spec) IN
                     IF version = <<>> \/ version = << <<>> >>
                     THEN ReturnFrom(Pop, Top, FALSE, "no version found")
                     ELSE /\ stack' = [stack EXCEPT
                                         ![Len(stack)].pc = "fetch",
                                         ![Len(stack)].available = available,
                                         ![Len(stack)].version = version]
                          /\ UNCHANGED <<cmd, ret>>
    /\ UNCHANGED <<confVars, modules, setCount, attempted, skipped, pureVars>>

\* --------------------------------------------------------- package directory

\* snakeer_modules/<name>: absent, or a directory that is empty, holds part
\* of an archive, or holds a whole one; deps are the "dependencies" of its
\* metadata.json (none when there is no such file or field).
Absent == [state |-> "absent", deps |-> <<>>]
Empty == [state |-> "empty", deps |-> <<>>]
Partial == [state |-> "partial", deps |-> <<>>]
Populated(deps) == [state |-> "populated", deps |-> deps]

\* What the archive holds: one that extractall cannot open, one on which it
\* raises part-way, or a whole package with its metadata.json.
ArchiveContents ==
    {[how |-> "corrupt_open", deps |-> <<>>], [how |-> "corrupt_mid", deps |-> <<>>]}
    \cup {[how |-> "extracted", deps |-> d] : d \in DepChoices(registry)}

\* The contents that matter to _extract_package: it opens only an archive
\* whose name ends in .zip or .tar.gz.
ContentsRead(archive) ==
    IF archive \in {"zip", "targz"} THEN ArchiveContents
    ELSE {[how |-> "extracted", deps |-> <<>>]}

\* Mutant: _extract_package returns True whatever happened.
extract_never_fails(archive, content) == FALSE

\* _extract_package raises inside its try block: it returns False
extract_fails(archive, content) ==
    archive \in {"zip", "targz"} /\ content.how # "extracted"

\* The directory _extract_package leaves: wiped and made anew, then filled
\* from a .zip or .tar.gz archive; an archive of another name is not read.
extract_package(archive, content) ==
    IF archive \notin {"zip", "targz"} THEN Empty
    ELSE IF content.how = "extracted" THEN Populated(content.deps)
    ELSE IF content.how = "corrupt_mid" THEN Partial
    ELSE Empty

Range(s) == {s[i] : i \in 1..Len(s)}

\* _install_dependencies(package_name, installed): the list after the
\* cycle guard and the append, and the dependencies it will walk
dependencies_installed(name, installed) ==
    IF name \in Range(installed) THEN installed ELSE Append(installed, name)

dependencies_todo(name, installed, dir) ==
    IF name \in Range(installed) THEN <<>> ELSE dir.deps

\* install_package, lines 211-223: _download_package, _extract_package, the
\* State Store write, and the call of _install_dependencies(name) up to its
\* loop
InstallFetch ==
    /\ At("install_package", "fetch")
    /\ \E out \in Answers(DownloadOutcomes) :
         LET f == Top
             r == try_apis(out, current_api)
         IN  /\ current_api' = r.current_api
             /\ lastTry' = TryRecord("download", current_api, out, r)
             /\ netCalls' = netCalls + 1
             /\ IF r.raised
                THEN /\ ReturnFrom(Pop, f, FALSE, "download failed")
                     /\ UNCHANGED <<cfgInst, modules, setCount>>
                ELSE \E content \in ContentsRead(r.value) :
                     LET dir == extract_package(r.value, content) IN
                     /\ modules' = [modules EXCEPT ![f.name] = dir]
                     /\ IF extract_fails(r.value, content)
                        THEN /\ ReturnFrom(Pop, f, FALSE, "extract failed")
                             /\ UNCHANGED <<cfgInst, setCount>>
                        ELSE /\ cfgInst' = set_installed_version(cfgInst, f.name,
                                                                 f.version[1])
                             /\ setCount' = [setCount EXCEPT ![f.name] = @ + 1]
                             /\ stack' = Append(
                                  [stack EXCEPT ![Len(stack)].pc = "dependencies"],
                                  [Frame("install_dependencies", f.name, <<>>, "loop")
                                     EXCEPT !.installed =
                                                dependencies_installed(f.name, <<>>),
                                            !.todo =
                                                dependencies_todo(f.name, <<>>, dir)])
                             /\ UNCHANGED <<cmd, ret>>
    /\ UNCHANGED <<cfgDeps, attempted, skipped, pureVars>>

\* Mutant: every declared dependency is installed, recorded or not.
dependency_installs_always(inst, name) == TRUE

\* "if not self.config.is_installed(dep_name)"
dependency_installs(inst, name) == ~is_installed(inst, name)

\* _install_dependencies, lines 181-183: one turn of the loop over
\* deps.items(); after the last, install_package prints and returns True
DependenciesStep ==
    /\ At("install_dependencies", "loop")
    /\ IF Top.todo = <<>>
       THEN ReturnFrom(SubSeq(stack, 1, Len(stack) - 2), stack[Len(stack) - 1],
                       TRUE, "installed")
       ELSE LET dep == Head(Top.todo)
                rest == [stack EXCEPT ![Len(stack)].todo = Tail(@)]
            IN  /\ stack' = IF dependency_installs(cfgInst, dep.name)
                            THEN Append(rest, Frame("install_package", dep.name,
                                                    dep.spec, "check"))
                            ELSE rest
                /\ UNCHANGED <<cmd, ret>>
    /\ UNCHANGED <<confVars, modules, current_api, histVars, pureVars>>

\* ------------------------------------------------- install_all, update

\* install_all(force), lines 238-243: one turn of the loop over
\* dependencies.items(); the function returns after the last
\* Mutant: force is ignored.
install_all_installs_unforced(inst, force, name) == ~is_installed(inst, name)

install_all_installs(inst, force, name) == force \/ ~is_installed(inst, name)

InstallAllStep ==
    /\ At("install_all", "loop")
    /\ IF Top.todo = <<>>
       THEN /\ Leave(Pop, TRUE)
            /\ UNCHANGED <<attempted, skipped>>
       ELSE LET dep == Head(Top.todo)
                rest == [stack EXCEPT ![Len(stack)].todo = Tail(@)]
            IN  IF install_all_installs(cfgInst, Top.force, dep.name)
                THEN /\ stack' = Append(rest, Frame("install_package", dep.name,
                                                    dep.spec, "check"))
                     /\ attempted' = attempted \cup {dep.name}
                     /\ UNCHANGED <<cmd, skipped>>
                ELSE /\ stack' = rest
                     /\ skipped' = skipped \cup {dep.name}
                     /\ UNCHANGED <<cmd, attempted>>
    /\ UNCHANGED <<confVars, modules, current_api, ret, netCalls, setCount,
                   lastTry, pureVars>>

\* Mutant: every package directory is deleted.
remove_package_everything(mods, name) == [p \in DOMAIN mods |-> Absent]

\* remove_package(name): the directory is deleted if it exists
remove_package(mods, name) == [mods EXCEPT ![name] = Absent]

\* update_package(name), lines 254-261, for the names update_all or the
\* command gives, one per turn
UpdateStep ==
    /\ At("update", "loop")
    /\ IF Top.todo = <<>>
       THEN /\ Leave(Pop, TRUE)
            /\ UNCHANGED modules
       ELSE LET name == Head(Top.todo)
                version_spec == get_requested_version(cfgDeps, name)
                rest == [stack EXCEPT ![Len(stack)].todo = Tail(@)]
            IN  IF version_spec = <<>> \/ version_spec[1] = <<>>
                THEN /\ stack' = rest
                     /\ UNCHANGED <<cmd, modules>>
                ELSE /\ modules' = remove_package(modules, name)
                     /\ stack' = Append(rest, Frame("install_package", name,
                                                    version_spec[1], "check"))
                     /\ UNCHANGED cmd
    /\ UNCHANGED <<confVars, current_api, ret, histVars, pureVars>>

\* ----------------------------------------------------------------- commands

\* cli.main builds a new Config and a new Installer for each command:
\* current_api starts at VERCEL_API; the observers start anew.
Start(kind, name, spec, force, frames) ==
    /\ ~Running
    /\ cmdsLeft > 0
    /\ cmdsLeft' = cmdsLeft - 1
    /\ stack' = frames
    /\ cmd' = [kind |-> kind, name |-> name, spec |-> spec, force |-> force,
               status |-> IF frames = <<>> THEN "returned" ELSE "running",
               satisfied |->
                   /\ name \in Pkg
                   /\ get_requested_version(cfgDeps, name) # <<>>
                   /\ ~check_raises(cfgInst, name,
                                    get_requested_version(cfgDeps, name)[1])
                   /\ already_installed(cfgInst, name,
                                        get_requested_version(cfgDeps, name)[1]),
               fresh |-> \A p \in Pkg : ~is_installed(cfgInst, p),
               failed |-> FALSE]
    /\ current_api' = VERCEL_API
    /\ ret' = NoRet
    /\ netCalls' = 0
    /\ setCount' = [p \in Pkg |-> 0]
    /\ lastTry' = NoTry
    /\ attempted' = {}
    /\ skipped' = {}
    /\ UNCHANGED <<pin, pout, registry, procs, heap>>

\* snakeer install [--force]
CmdInstall ==
    \E force \in BOOLEAN :
        /\ Start("install", 0, <<>>, force,
                 << [Frame("install_all", 0, <<>>, "loop")
                       EXCEPT !.force = force, !.todo = cfgDeps] >>)
        /\ UNCHANGED <<confVars, modules>>

\* snakeer add <name>@<spec>
CmdAdd ==
    \E name \in registry.names, spec \in UserSpecs :
        /\ Start("add", name, spec, FALSE,
                 << Frame("install_package", name, spec, "check") >>)
        /\ cfgDeps' = add_dependency(cfgDeps, name, spec)
        /\ UNCHANGED <<cfgInst, modules>>

\* snakeer remove <name>: config.remove_dependency, installer.remove_package
CmdRemove ==
    \E name \in registry.names :
        /\ Start("remove", name, <<>>, FALSE, <<>>)
        /\ cfgDeps' = without(cfgDeps, name)
        /\ cfgInst' = [cfgInst EXCEPT ![name] = <<>>]
        /\ modules' = remove_package(modules, name)

\* snakeer update <name>
CmdUpdate ==
    \E name \in registry.names :
        /\ Start("update", name, <<>>, FALSE,
                 << [Frame("update", 0, <<>>, "loop") EXCEPT !.todo = <<name>>] >>)
        /\ UNCHANGED <<confVars, modules>>

\* snakeer update: update_all
CmdUpdateAll ==
    /\ Start("update_all", 0, <<>>, FALSE,
             << [Frame("update", 0, <<>>, "loop")
                   EXCEPT !.todo = [i \in 1..Len(cfgDeps) |-> cfgDeps[i].name]] >>)
    /\ UNCHANGED <<confVars, modules>>

\* --------------------------------------------------------- specification

NoInput == [available |-> <<>>, spec |-> <<>>]
NoOutput == [done |-> FALSE, raised |-> FALSE, result |-> <<>>]

\* The "snakeer_dependencies" a project file may hold: ordered, names distinct
RECURSIVE DepsOver(_)
DepsOver(names) ==
    {<<>>} \cup
    UNION { { <<[name |-> p, spec |-> s]>> \o d : d \in DepsOver(names \ {p}) } :
              <<p, s>> \in names \X UserSpecs }

ProjectDeps == DepsOver(1..NPkg)

\* One invocation, one Config instance: no other process, no other instance
NoProcs == [file_exists |-> TRUE, proc |-> <<>>]
NoHeap == [objs |-> <<>>, config |-> <<>>, files |-> <<>>, initial |-> <<>>,
           actor |-> 0, ops |-> 0]
OneConfig == procs = NoProcs /\ heap = NoHeap

\* Nothing installed, no package directory, no command run
NothingInstalled ==
    /\ cfgInst = [p \in Pkg |-> <<>>]
    /\ modules = [p \in Pkg |-> Absent]
    /\ current_api = VERCEL_API
    /\ stack = <<>>
    /\ cmd = Idle
    /\ ret = NoRet
    /\ netCalls = 0
    /\ setCount = [p \in Pkg |-> 0]
    /\ lastTry = NoTry
    /\ attempted = {}
    /\ skipped = {}
    /\ pout = NoOutput

\* The registry of NPkg packages with at most MaxDeps dependencies each
SmallRegistry == [names |-> 1..NPkg, maxdeps |-> MaxDeps]

\* A project whose project_packages.json lists dependencies, none installed
Init ==
    /\ cfgDeps \in ProjectDeps
    /\ NothingInstalled
    /\ OneConfig
    /\ registry = SmallRegistry
    /\ cmdsLeft = MaxCmds
    /\ pin = NoInput

Step ==
    \/ InstallCheck
    \/ InstallDiscover
    \/ InstallFetch
    \/ DependenciesStep
    \/ InstallAllStep
    \/ UpdateStep

Command ==
    \/ CmdInstall
    \/ CmdAdd
    \/ CmdRemove
    \/ CmdUpdate
    \/ CmdUpdateAll

Next == Step \/ Command

Spec == Init /\ [][Next]_vars

\* ------------------------------------------------ selector specification

\* Version and spec texts the selector is applied to.
V10 == <<"1", ".", "0">>
V120 == <<"1", ".", "2", ".", "0">>
V150 == <<"1", ".", "5", ".", "0">>
V190 == <<"1", ".", "9", ".", "0">>
V1100 == <<"1", ".", "1", "0", ".", "0">>
SelVersions == {V100, V10, V120, V150, V190, V1100, V200, VBeta}

SelSpecs ==
    {Latest, V100, V200,
     <<">", "=">> \o V120, <<"^">> \o V120, <<"~">> \o V120,
     <<" ">> \o GE150 \o <<" ">>, <<">", "=">> \o V10, GEBad}

RECURSIVE ListsOver(_, _)
ListsOver(S, n) ==
    IF n = 0 THEN {<<>>}
    ELSE ListsOver(S, n - 1) \cup
         {Append(l, v) : l \in {x \in ListsOver(S, n - 1) : Len(x) = n - 1}, v \in S}

\* The project of Init with no dependency, and an input of the selector
SelInit ==
    /\ cfgDeps = <<>>
    /\ NothingInstalled
    /\ OneConfig
    /\ cmdsLeft = 0
    /\ registry = SmallRegistry
    /\ pin \in [available : ListsOver(SelVersions, MaxAvail), spec : SelSpecs]

\* find_best_version(pin.available, pin.spec)
ApplyFindBestVersion ==
    /\ ~pout.done
    /\ pout' = [done |-> TRUE,
                raised |-> find_best_version_raises(pin.available, pin.spec),
                result |-> IF find_best_version_raises(pin.available, pin.spec)
                           THEN <<>>
                           ELSE find_best_version(pin.available, pin.spec)]
    /\ UNCHANGED <<confVars, modules, current_api, stack, cmd, cmdsLeft, ret,
                   histVars, pin, registry, procs, heap>>

SelNext == ApplyFindBestVersion

SelSpec == SelInit /\ [][SelNext]_vars

\* -------------------------------------------- satisfaction specification

\* Version components, and the texts str() gives them
SatParts == {0, 1, 2, 5, 10}

DigitText(d) ==
    CASE d = 0 -> "0" [] d = 1 -> "1" [] d = 2 -> "2" [] d = 3 -> "3"
      [] d = 4 -> "4" [] d = 5 -> "5" [] d = 6 -> "6" [] d = 7 -> "7"
      [] d = 8 -> "8" [] d = 9 -> "9"

PartText(n) ==
    IF n < 10 THEN <<DigitText(n)>> ELSE <<DigitText(n \div 10), DigitText(n % 10)>>

SatTriples == SatParts \X SatParts \X SatParts

\* "major.minor.patch", and its first n components
ShortText(t, n) ==
    PartText(t[1])
    \o (IF n >= 2 THEN <<".">> \o PartText(t[2]) ELSE <<>>)
    \o (IF n >= 3 THEN <<".">> \o PartText(t[3]) ELSE <<>>)

TripleText(t) == ShortText(t, 3)

\* Version texts with fewer than three components
ShortVersions == {<<"0">>, <<"1">>, V10, <<"2", ".", "0">>}

\* Version texts a registry lists and a spec names
SatVersions == {TripleText(t) : t \in SatTriples} \cup ShortVersions

\* The prefixes of a spec text: none (exact), '>=', '^', '~'
SatPrefixes == {<<>>, <<">", "=">>, <<"^">>, <<"~">>}

\* Spec texts whose remainder is no version
OddSpecs ==
    {GEBad, VBeta, <<"^">>, <<"a", "b", "c">>, <<"~", "1", ".", ".", "0">>,
     <<"1", ".", "0", ".", "0", ".", "0">>, <<">", "=", "-", "1">>}

SatSpecs ==
    {Latest} \cup {op \o v : op \in SatPrefixes, v \in SatVersions} \cup OddSpecs

\* The project of Init with no dependency, and a version and a spec text
SatInit ==
    /\ cfgDeps = <<>>
    /\ NothingInstalled
    /\ OneConfig
    /\ cmdsLeft = 0
    /\ registry = SmallRegistry
    /\ pin \in [version : SatVersions \cup {VBeta}, spec : SatSpecs]

\* parse_version_spec(pin.spec)
ApplyParseVersionSpec ==
    /\ ~pout.done
    /\ pout' = [done |-> TRUE, fn |-> "parse_version_spec",
                raised |-> parse_version_spec_raises(pin.spec),
                result |-> parse_version_spec(pin.spec)]
    /\ UNCHANGED <<confVars, modules, current_api, stack, cmd, cmdsLeft, ret,
                   histVars, pin, registry, procs, heap>>

\* version_satisfies(pin.version, pin.spec)
ApplyVersionSatisfies ==
    /\ ~pout.done
    /\ pout' = [done |-> TRUE, fn |-> "version_satisfies",
                raised |-> version_satisfies_raises(pin.version, pin.spec),
                result |-> IF version_satisfies_raises(pin.version, pin.spec)
                           THEN FALSE
                           ELSE version_satisfies(pin.version, pin.spec)]
    /\ UNCHANGED <<confVars, modules, current_api, stack, cmd, cmdsLeft, ret,
                   histVars, pin, registry, procs, heap>>

SatNext == ApplyParseVersionSpec \/ ApplyVersionSatisfies

SatSpec == SatInit /\ [][SatNext]_vars

\* ------------------------------------------- normalization specification

\* What extractall leaves in the package directory: a set of entries with
\* distinct names, each a file or a directory; items are the entries of a
\* top-level directory (of a deeper one the model keeps none).
EntryNames == {"a", "b", "pkg"}

DistinctNames(S) == \A e, f \in S : e.name = f.name => e = f

InnerEntries == [name : EntryNames, dir : BOOLEAN, items : {{}}]

InnerSets ==
    {S \in SUBSET InnerEntries : Cardinality(S) <= MaxEntries /\ DistinctNames(S)}

TopEntries ==
    [name : EntryNames, dir : {FALSE}, items : {{}}]
    \cup [name : EntryNames, dir : {TRUE}, items : InnerSets]

\* Sets of at most n entries of T with distinct names
RECURSIVE EntrySets(_, _)
EntrySets(T, n) ==
    IF n = 0 THEN {{}}
    ELSE LET smaller == EntrySets(T, n - 1) IN
         smaller \cup {S \cup {e} : S \in smaller, e \in T} 

Layouts == {S \in EntrySets(TopEntries, MaxEntries) : DistinctNames(S)}

\* The orders os.listdir may give the entries of S in
RECURSIVE Orders(_)
Orders(S) ==
    IF S = {} THEN {<<>>}
    ELSE UNION {{<<e>> \o o : o \in Orders(S \ {e})} : e \in S}

\* "len(items) == 1 and os.path.isdir(os.path.join(package_dir, items[0]))"
single_root(layout) == Cardinality(layout) = 1 /\ \A e \in layout : e.dir

\* "for item in os.listdir(subdir): shutil.move(os.path.join(subdir, item),
\* package_dir)", then os.rmdir(subdir). package_dir is a directory, so
\* shutil.move moves the item into it under its own name and raises
\* shutil.Error when that name exists there already: the wrapper's own name
\* does. moved are the entries hoisted so far, order the ones still to move.
RECURSIVE hoist(_, _, _)
hoist(wrapper, moved, order) ==
    IF order = <<>> THEN [ok |-> TRUE, layout |-> moved]
    ELSE IF \E e \in moved \cup {wrapper} : e.name = Head(order).name
    THEN [ok |-> FALSE,
          layout |-> moved \cup {[wrapper EXCEPT !.items = Range(order)]}]
    ELSE hoist(wrapper, moved \cup {Head(order)}, Tail(order))

\* _extract_package, lines 143-151: what it leaves of layout and whether it
\* returns True, when os.listdir gives the wrapper's entries in this order
normalize(layout, order) ==
    IF single_root(layout)
    THEN hoist(CHOOSE e \in layout : TRUE, {}, order)
    ELSE [ok |-> TRUE, layout |-> layout]

\* The project of Init with no dependency, and an extracted layout
NormInit ==
    /\ cfgDeps = <<>>
    /\ NothingInstalled
    /\ OneConfig
    /\ cmdsLeft = 0
    /\ registry = SmallRegistry
    /\ pin \in [layout : Layouts]

\* The normalization of pin.layout
ApplyNormalize ==
    /\ ~pout.done
    /\ \E order \in Orders(IF single_root(pin.layout)
                            THEN (CHOOSE e \in pin.layout : TRUE).items
                            ELSE {}) :
         pout' = [done |-> TRUE, fn |-> "normalize",
                  raised |-> ~normalize(pin.layout, order).ok,
                  result |-> normalize(pin.layout, order).layout]
    /\ UNCHANGED <<confVars, modules, current_api, stack, cmd, cmdsLeft, ret,
                   histVars, pin, registry, procs, heap>>

NormNext == ApplyNormalize

NormSpec == NormInit /\ [][NormNext]_vars

\* A specification of one command on a project with no dependency yet, in
\* which a command that is running keeps taking steps.
FreshInit ==
    /\ cfgDeps = <<>>
    /\ NothingInstalled
    /\ OneConfig
    /\ cmdsLeft = 1
    /\ registry = SmallRegistry
    /\ pin = NoInput

FreshSpec == FreshInit /\ [][Next]_vars /\ WF_vars(Step)

\* The registry of NShared packages with at most MaxSharedDeps dependencies
\* each: two packages can declare the same third.
SharedRegistry == [names |-> 1..NShared, maxdeps |-> MaxSharedDeps]

\* One command on a project with no dependency yet, with that registry
SharedInit ==
    /\ cfgDeps = <<>>
    /\ NothingInstalled
    /\ OneConfig
    /\ cmdsLeft = 1
    /\ registry = SharedRegistry
    /\ pin = NoInput

SharedSpec == SharedInit /\ [][Next]_vars

\* -------------------------------------------- simultaneous invocations

\* Invocations of 'snakeer add <name>' that run at once on one project
NProc == 2

\* Config.DEFAULT_CONFIG: its two dependency fields
DefaultConfig == [deps |-> <<>>, inst |-> [p \in Pkg |-> <<>>]]

\* What project_packages.json holds
file_config == [deps |-> cfgDeps, inst |-> cfgInst]

\* Mutant: the file is read on every call.
load_uncached(cache, exists, file) == IF exists THEN file ELSE DefaultConfig

\* Config._load: the configuration cached by an earlier call when there is
\* one; otherwise what the file holds, or the default when there is no file
load(cache, exists, file) ==
    IF cache # <<>> THEN cache[1]
    ELSE IF exists THEN file ELSE DefaultConfig

\* Config._save: the whole cached configuration replaces the file
saved(i, config, pc, recorded) ==
    /\ cfgDeps' = config.deps
    /\ cfgInst' = config.inst
    /\ procs' = [file_exists |-> TRUE,
                 proc |-> [procs.proc EXCEPT ![i] =
                              [@ EXCEPT !.pc = pc, !.cache = <<config>>,
                                        !.recorded = recorded]]]

\* cli 'add', first half: config.add_dependency(name, 'latest'), the first
\* call on the process's Config
ProcAdd(i) ==
    LET p == procs.proc[i]
        config == load(p.cache, procs.file_exists, file_config)
    IN  /\ p.pc = "start"
        /\ saved(i, [config EXCEPT !.deps = add_dependency(@, p.name, Latest)],
                 "installing", FALSE)
        /\ UNCHANGED <<modules, current_api, stack, cmd, cmdsLeft, ret, histVars,
                       pin, pout, registry, heap>>

\* cli 'add', second half: installer.install_package(name, 'latest') for a
\* package without dependencies: the early return on a recorded version, a
\* failed discovery, download or extraction, or set_installed_version
ProcRecord(i) ==
    LET p == procs.proc[i]
        config == load(p.cache, procs.file_exists, file_config)
    IN  /\ p.pc = "installing"
        /\ \E fetched \in BOOLEAN :
             IF is_installed(config.inst, p.name) \/ ~fetched
             THEN /\ procs' = [procs EXCEPT !.proc[i].pc = "done"]
                  /\ UNCHANGED confVars
             ELSE saved(i, [config EXCEPT
                              !.inst = set_installed_version(@, p.name, p.version)],
                        "done", TRUE)
        /\ UNCHANGED <<modules, current_api, stack, cmd, cmdsLeft, ret, histVars,
                       pin, pout, registry, heap>>

\* NProc invocations start at once on a project with nothing installed, whose
\* file exists or not
RaceInit ==
    /\ cfgDeps = <<>>
    /\ NothingInstalled
    /\ heap = NoHeap
    /\ cmdsLeft = 0
    /\ registry = SmallRegistry
    /\ pin = NoInput
    /\ procs \in [file_exists : BOOLEAN,
                  proc : [1..NProc ->
                            [pc : {"start"}, cache : {<<>>}, recorded : {FALSE},
                             name : registry.names, version : {V100, V200}]]]

RaceNext == \E i \in 1..NProc : ProcAdd(i) \/ ProcRecord(i)

RaceSpec == RaceInit /\ [][RaceNext]_vars

\* ------------------------------------- Config instances of one process

\* Config instances one process creates, each for a project path of its own,
\* and the calls made on them
NInst == 2
MaxOps == 3

\* The dict objects of the process: 1 and 2 are the two dicts nested in the
\* class attribute DEFAULT_CONFIG ("snakeer_dependencies" and
\* "installed_dependencies_versions"); DepsOf(i) and InstOf(i) are the dicts
\* load_json builds from the file of instance i
DefaultDeps == 1
DefaultInst == 2
DepsOf(i) == 2 * i + 1
InstOf(i) == 2 * i + 2
Objects == 1..(2 * NInst + 2)

NoVersions == [p \in Pkg |-> <<>>]

\* project_packages.json of a project: absent, not parseable, or a JSON
\* object that holds each of the two dependency fields or lacks it
ProjectFiles ==
    {[state |-> "absent", deps |-> <<>>, inst |-> <<>>],
     [state |-> "corrupt", deps |-> <<>>, inst |-> <<>>]}
    \cup [state : {"json"}, deps : {<<>>, <<<<>>>>}, inst : {<<>>, <<NoVersions>>}]

\* Config._save of instance i: the file holds what _config refers to
config_save(h, i) ==
    [h EXCEPT !.files[i] =
        [state |-> "json",
         deps |-> <<h.objs[h.config[i][1].deps]>>,
         inst |-> <<h.objs[h.config[i][1].inst]>>]]

\* Config._load of instance i. DEFAULT_CONFIG.copy() is a new outer dict
\* whose two dependency fields refer to the class attribute's nested dicts;
\* a key the file lacks is set to the class attribute's value, the same dict.
config_load(h, i) ==
    IF h.config[i] # <<>> THEN h
    ELSE IF h.files[i].state = "absent"
    THEN config_save([h EXCEPT !.config[i] =
                         <<[deps |-> DefaultDeps, inst |-> DefaultInst]>>], i)
    ELSE IF h.files[i].state = "corrupt"
    THEN [h EXCEPT !.config[i] = <<[deps |-> DefaultDeps, inst |-> DefaultInst]>>]
    ELSE LET f == h.files[i]
         IN  [h EXCEPT
                !.config[i] =
                    <<[deps |-> IF f.deps = <<>> THEN DefaultDeps ELSE DepsOf(i),
                       inst |-> IF f.inst = <<>> THEN DefaultInst ELSE InstOf(i)]>>,
                !.objs = [o \in Objects |->
                            IF o = DepsOf(i) /\ f.deps # <<>> THEN f.deps[1]
                            ELSE IF o = InstOf(i) /\ f.inst # <<>> THEN f.inst[1]
                            ELSE h.objs[o]]]

\* Config.get_dependencies and Config.get_installed_versions of instance i
get_dependencies(h, i) ==
    LET l == config_load(h, i) IN l.objs[l.config[i][1].deps]

get_installed_versions(h, i) ==
    LET l == config_load(h, i) IN l.objs[l.config[i][1].inst]

called(h, i) == [h EXCEPT !.ops = @ + 1, !.actor = i]

AliasFrame ==
    UNCHANGED <<confVars, modules, current_api, stack, cmd, cmdsLeft, ret, histVars,
                pin, pout, registry, procs>>

\* config.get_dependencies() on instance i
GetDependencies(i) ==
    /\ heap.ops < MaxOps
    /\ heap' = called(config_load(heap, i), i)
    /\ AliasFrame

\* config.add_dependency(name, spec) on instance i
AddDependency(i) ==
    /\ heap.ops < MaxOps
    /\ \E name \in registry.names, spec \in {Latest, V100} :
         LET l == config_load(heap, i)
             o == l.config[i][1].deps
         IN  heap' = called(config_save(
                         [l EXCEPT !.objs[o] = add_dependency(@, name, spec)], i), i)
    /\ AliasFrame

\* config.set_installed_version(name, version) on instance i
SetInstalledVersion(i) ==
    /\ heap.ops < MaxOps
    /\ \E name \in registry.names, version \in {V100, V200} :
         LET l == config_load(heap, i)
             o == l.config[i][1].inst
         IN  heap' = called(config_save(
                         [l EXCEPT !.objs[o] = set_installed_version(@, name, version)],
                         i), i)
    /\ AliasFrame

\* NInst instances created, none loaded, DEFAULT_CONFIG as the class defines it
AliasInit ==
    /\ cfgDeps = <<>>
    /\ NothingInstalled
    /\ procs = NoProcs
    /\ cmdsLeft = 0
    /\ registry = SmallRegistry
    /\ pin = NoInput
    /\ \E files \in [1..NInst -> ProjectFiles] :
         heap = [objs |-> [o \in Objects |-> IF o % 2 = 1 THEN <<>> ELSE NoVersions],
                 config |-> [i \in 1..NInst |-> <<>>],
                 files |-> files,
                 initial |-> files,
                 actor |-> 0,
                 ops |-> 0]

AliasNext ==
    \E i \in 1..NInst : GetDependencies(i) \/ AddDependency(i) \/ SetInstalledVersion(i)

AliasSpec == AliasInit /\ [][AliasNext]_vars

\* ------------------------------------------------------------------ claims

Frames(fn, pc) == {i \in 1..Len(stack) : stack[i].fn = fn /\ stack[i].pc = pc}

\* version satisfies spec: version_satisfies returns True
Satisfies(version, spec) ==
    ~version_satisfies_raises(version, spec) /\ version_satisfies(version, spec)

\* The State Store records for name a version that meets spec
Satisfied(name, spec) ==
    /\ cfgInst[name] # <<>>
    /\ spec = Latest \/ Satisfies(cfgInst[name][1], spec)

\* C1: when the State Store records an installed version for name and spec
\* is 'latest' or that version satisfies spec, install_package(name, spec)
\* returns success in its first step with no backend operation, no change of
\* a package directory and no State Store write; and after a command whose
\* last install_package call returned success, the store satisfies that
\* call's name and spec, so that a second call right after it is such a call.
C1_ShortCircuit ==
    (At("install_package", "check") /\ Satisfied(Top.name, Top.spec))
    => /\ stack' = Pop
       /\ ret' = [name |-> Top.name, spec |-> Top.spec, ok |-> TRUE,
                  msg |-> "already installed"]
       /\ UNCHANGED <<cfgDeps, cfgInst, modules, netCalls, lastTry, setCount,
                      current_api>>

C1_SecondCallSatisfied ==
    (cmd.status = "returned" /\ ret.ok) => Satisfied(ret.name, ret.spec)

C1_AlreadySatisfied == [][C1_ShortCircuit]_vars /\ []C1_SecondCallSatisfied

\* C1 witness: a second add of a package the first add installed returned
\* success without a backend operation.
C1_Witness ==
    /\ cmdsLeft = MaxCmds - 2
    /\ cmd.kind = "add"
    /\ cmd.status = "returned"
    /\ ret.msg = "already installed"
    /\ cmd.spec # Latest
    /\ netCalls = 0

\* The packages reachable from name through the dependencies the package
\* directories declare
RECURSIVE ReachFrom(_, _)
ReachFrom(names, n) ==
    IF n = 0 THEN names
    ELSE ReachFrom(names \cup UNION {dep_names(modules[p].deps) : p \in names}, n - 1)

Reachable(name) == ReachFrom({name}, NPkg)

\* C2: install_package(A, 'latest') on an empty State Store terminates: the
\* call stack stays within two frames per package and the running command
\* ends; and when every install of the command succeeded, every package
\* reachable from A is recorded as installed, by exactly one
\* set_installed_version call each.
C2_StackBounded == Len(stack) <= 2 * NPkg + 1

C2_AllInstalledOnce ==
    (/\ cmd.kind = "add"
     /\ cmd.spec = Latest
     /\ cmd.fresh
     /\ cmd.status = "returned"
     /\ ~cmd.failed)
    => \A p \in Reachable(cmd.name) : is_installed(cfgInst, p) /\ setCount[p] = 1

C2_CycleSafe ==
    /\ [](C2_StackBounded /\ C2_AllInstalledOnce)
    /\ (cmd.status = "running") ~> (cmd.status # "running")

\* C2 witness: a two-package cycle, both installed once.
C2_Witness ==
    /\ cmd.kind = "add"
    /\ cmd.spec = Latest
    /\ cmd.fresh
    /\ cmd.status = "returned"
    /\ ~cmd.failed
    /\ \E q \in Pkg \ {cmd.name} :
         /\ q \in dep_names(modules[cmd.name].deps)
         /\ cmd.name \in dep_names(modules[q].deps)
         /\ setCount[q] = 1
         /\ setCount[cmd.name] = 1

\* C3 (the claim as stated): update_package(name), for a name installed at a
\* version that satisfies its requested spec, performs version discovery and
\* fetch again, and the package directory exists when it returned successfully.
C3_UpdateReinstalls ==
    (/\ cmd.kind = "update"
     /\ cmd.status = "returned"
     /\ cmd.satisfied)
    => /\ netCalls > 0
       /\ ret.ok => modules[cmd.name].state # "absent"

\* C4: when the primary backend raises on the version listing and the
\* secondary returns a list, install_package goes on with the secondary's
\* list: it selects a version of that list and fetches it, or fails because
\* the selection from that list fails, never with "not found"; a download the
\* secondary serves does not fail the install; and the version an install
\* records is a version of the list its discovery returned.
C4_ListingFailsOver ==
    (/\ At("install_package", "discover")
     /\ netCalls' = netCalls + 1
     /\ lastTry'.answers[VERCEL_API].raised
     /\ ~lastTry'.answers[NETLIFY_API].raised
     /\ lastTry'.answers[NETLIFY_API].value # <<>>)
    => LET L == lastTry'.answers[NETLIFY_API].value IN
       \/ /\ Len(stack') = Len(stack)
          /\ stack'[Len(stack)].pc = "fetch"
          /\ stack'[Len(stack)].available = L
          /\ stack'[Len(stack)].version # <<>>
          /\ stack'[Len(stack)].version[1] \in Range(L)
       \/ cmd'.status = "raised"
       \/ /\ stack' = Pop
          /\ ret'.msg = "no version found"
          /\ \A i \in 1..Len(L) : ~Satisfies(L[i], Top.spec)

C4_DownloadFailsOver ==
    (/\ At("install_package", "fetch")
     /\ netCalls' = netCalls + 1
     /\ \E a \in Range(apis) : ~lastTry'.answers[a].raised)
    => ~(stack' = Pop /\ ret'.msg = "download failed")

C4_RecordedFromList ==
    \A i \in Frames("install_package", "dependencies") :
        /\ cfgInst[stack[i].name] = stack[i].version
        /\ stack[i].version[1] \in Range(stack[i].available)

C4_Failover ==
    /\ [][C4_ListingFailsOver /\ C4_DownloadFailsOver]_vars
    /\ []C4_RecordedFromList

\* C4 witness: an add installed its package after the listing was answered
\* by the secondary backend (current_api before the download).
C4_Witness ==
    /\ cmd.kind = "add"
    /\ cmd.status = "returned"
    /\ ret.ok
    /\ ret.msg = "installed"
    /\ netCalls = 2
    /\ lastTry.kind = "download"
    /\ lastTry.before = NETLIFY_API

\* C5 (the claim as stated): an operation that starts when the last
\* successful operation was served by the secondary backend tries the
\* secondary first.
C5_Sticky ==
    (lastTry.kind # "none" /\ lastTry.before = NETLIFY_API)
    => lastTry.tried[1].api = NETLIFY_API

\* C5 (amended): every failover-wrapped operation tries the primary backend
\* first, whatever backend served the operation before it; current_api only
\* records the backend that served the last successful operation.
C5_PrimaryFirst ==
    lastTry.kind # "none"
    => /\ lastTry.tried[1].api = VERCEL_API
       /\ ~lastTry.raised => current_api = lastTry.tried[Len(lastTry.tried)].api
       /\ lastTry.raised => current_api = lastTry.before

\* C5 witness: an operation begun with current_api at the secondary tried
\* the primary first.
C5_Witness ==
    /\ lastTry.kind # "none"
    /\ lastTry.before = NETLIFY_API
    /\ lastTry.tried[1].api = VERCEL_API

\* C6: one failover-wrapped operation tries the backends in priority order,
\* each at most once, moves on only after a failure, stops at the first
\* success, and so makes at most N = 2 attempts.
C6_ForwardOnly ==
    lastTry.kind # "none"
    => LET t == lastTry.tried IN
       /\ Len(t) >= 1
       /\ Len(t) <= Len(apis)
       /\ Len(apis) = 2
       /\ \A i \in 1..Len(t) :
            /\ t[i].api = apis[i]
            /\ t[i].raised = lastTry.answers[apis[i]].raised
       /\ \A i \in 1..(Len(t) - 1) : t[i].raised
       /\ lastTry.raised <=> (Len(t) = Len(apis) /\ \A i \in 1..Len(t) : t[i].raised)

\* C6 witness: an operation that failed over to the secondary backend.
C6_Witness ==
    /\ lastTry.kind # "none"
    /\ Len(lastTry.tried) = 2
    /\ ~lastTry.raised

\* C7 (the claim as stated): install_package reports "not found" only when
\* a backend returned an empty version list, not when every backend failed.
C7_NotFoundOnlyWhenListed ==
    (/\ cmd.kind = "add"
     /\ cmd.status = "returned"
     /\ ret.msg = "not found in registry")
    => ~lastTry.raised

\* C8 (the claim as stated): when install_all has ended, install_package was
\* attempted for every requested dependency that needed installing.
C8_BatchContinues ==
    (cmd.kind = "install" /\ cmd.status \in {"returned", "raised"})
    => \A i \in 1..Len(cfgDeps) :
         (cmd.force \/ ~is_installed(cfgInst, cfgDeps[i].name))
         => cfgDeps[i].name \in attempted

\* C9 (the claim as stated): install_all skips a dependency only when it is
\* not forced and the dependency is already satisfied.
C9_SkipsOnlySatisfied ==
    cmd.kind = "install"
    => \A i \in 1..Len(cfgDeps) :
         cfgDeps[i].name \in skipped
         => ~cmd.force /\ Satisfied(cfgDeps[i].name, cfgDeps[i].spec)

\* C9 (amended): for each requested dependency install_all's loop comes to,
\* it runs install_package iff force is true or no installed version is
\* recorded for the name; a recorded version that does not satisfy the
\* requested spec is skipped when force is false.
C9_Turn ==
    (At("install_all", "loop") /\ Top.todo # <<>>)
    => LET dep == Head(Top.todo) IN
       /\ stack'[Len(stack)] = [Top EXCEPT !.todo = Tail(@)]
       /\ IF Top.force \/ cfgInst[dep.name] = <<>>
          THEN /\ Len(stack') = Len(stack) + 1
               /\ stack'[Len(stack')] =
                      Frame("install_package", dep.name, dep.spec, "check")
               /\ attempted' = attempted \cup {dep.name}
          ELSE /\ Len(stack') = Len(stack)
               /\ skipped' = skipped \cup {dep.name}

C9_InstallsUnrecorded == [][C9_Turn]_vars

\* C9 witness: install_all skipped a dependency whose recorded version does
\* not satisfy its requested spec.
C9_Witness ==
    /\ cmd.kind = "install"
    /\ ~cmd.force
    /\ \E i \in 1..Len(cfgDeps) :
         /\ cfgDeps[i].name \in skipped
         /\ cfgDeps[i].spec = V100
         /\ cfgInst[cfgDeps[i].name] = <<V200>>

\* A text of one to three dot-separated digit strings
IsNumeric(v) ==
    /\ v # <<>>
    /\ \A i \in 1..Len(v) : v[i] \in Digits \cup {"."}
    /\ v[1] # "." /\ v[Len(v)] # "."
    /\ \A i \in 1..(Len(v) - 1) : ~(v[i] = "." /\ v[i + 1] = ".")

\* A list without the later occurrences of its elements
RECURSIVE Dedupe(_)
Dedupe(l) ==
    IF l = <<>> THEN <<>>
    ELSE LET d == Dedupe(SubSeq(l, 1, Len(l) - 1)) IN
         IF l[Len(l)] \in Range(d) THEN d ELSE Append(d, l[Len(l)])

\* C10: for numeric version strings and a spec that is 'latest', exact or a
\* numeric range, find_best_version returns an element of available that
\* satisfies spec and whose zero-padded (major, minor, patch) key no
\* satisfying element exceeds, and None when none satisfies; it returns the
\* same for available with its duplicates removed.
C10_SelectsMaximum ==
    (pout.done /\ \A i \in 1..Len(pin.available) : IsNumeric(pin.available[i])
               /\ ~version_satisfies_raises(V100, pin.spec))
    => LET L == pin.available
           sat == {i \in 1..Len(L) : Satisfies(L[i], pin.spec)}
       IN  /\ ~pout.raised
           /\ IF sat = {} THEN pout.result = <<>>
              ELSE /\ pout.result # <<>>
                   /\ \E i \in sat :
                        /\ pout.result[1] = L[i]
                        /\ \A j \in sat : seq_ge(version_key(L[i]), version_key(L[j]))
           /\ pout.result = find_best_version(Dedupe(L), pin.spec)

\* C10 witness: of 1.5.0, 2.0.0 and 1.5.0 again, >=1.2.0 selects 2.0.0.
C10_Witness ==
    /\ pout.done
    /\ pin.available = <<V150, V200, V150>>
    /\ pin.spec = <<">", "=">> \o V120
    /\ pout.result = <<V200>>

\* The length of a spec text's range prefix: '>=', '^' or '~', or none
PrefixLen(spec) ==
    IF Len(spec) >= 2 /\ spec[1] = ">" /\ spec[2] = "=" THEN 2
    ELSE IF Len(spec) >= 1 /\ spec[1] \in {"^", "~"} THEN 1
    ELSE 0

Prefix(spec) == SubSeq(spec, 1, PrefixLen(spec))
Remainder(spec) == SubSeq(spec, PrefixLen(spec) + 1, Len(spec))

\* The triple a "major.minor.patch" text denotes
IsTripleText(text) == \E t \in SatTriples : TripleText(t) = text
TripleOf(text) == CHOOSE t \in SatTriples : TripleText(t) = text

\* The reference order and the reference definitions of the range operators
LexGe(a, b) ==
    \/ a[1] > b[1]
    \/ a[1] = b[1] /\ a[2] > b[2]
    \/ a[1] = b[1] /\ a[2] = b[2] /\ a[3] >= b[3]

Reference(op, c, s) ==
    IF op = <<">", "=">> THEN LexGe(c, s)
    ELSE IF op = <<"^">> THEN c[1] = s[1] /\ LexGe(c, s)
    ELSE c[1] = s[1] /\ c[2] = s[2] /\ LexGe(c, s)

\* C11: for every candidate triple and spec triple over SatParts,
\* version_satisfies returns what the reference definition gives: '>=' iff
\* candidate >= spec lexicographically, '^' iff equal majors and candidate >=
\* spec, '~' iff equal majors and minors and candidate >= spec; and 'latest'
\* holds for every version.
C11_AgreesWithReference ==
    (pout.done /\ pout.fn = "version_satisfies")
    => /\ pin.spec = Latest => ~pout.raised /\ pout.result = TRUE
       /\ (/\ PrefixLen(pin.spec) > 0
           /\ IsTripleText(pin.version)
           /\ IsTripleText(Remainder(pin.spec)))
          => /\ ~pout.raised
             /\ pout.result = Reference(Prefix(pin.spec), TripleOf(pin.version),
                                        TripleOf(Remainder(pin.spec)))

\* C11 witness: 1.10.2 satisfies ^1.2.0.
C11_Witness ==
    /\ pout.done
    /\ pout.fn = "version_satisfies"
    /\ pin.version = TripleText(<<1, 10, 2>>)
    /\ pin.spec = <<"^">> \o V120
    /\ pout.result = TRUE

\* The zero-padded triple a text of one to three components denotes
VersionTexts == {ShortText(t, n) : t \in SatTriples, n \in 1..3}

PaddedTable ==
    [text \in VersionTexts |->
        CHOOSE t \in SatTriples :
            \E n \in 1..3 :
                ShortText(t, n) = text /\ \A k \in (n + 1)..3 : t[k] = 0]

IsVersionText(text) == text \in VersionTexts

PaddedOf(text) == PaddedTable[text]

\* C12 (the claim as stated): an exact spec is satisfied iff the candidate
\* and the spec version, each zero-padded to three components, are equal
\* component by component.
C12_ExactPadded ==
    (/\ pout.done
     /\ pout.fn = "version_satisfies"
     /\ pin.spec # Latest
     /\ PrefixLen(pin.spec) = 0
     /\ IsVersionText(pin.version)
     /\ IsVersionText(pin.spec))
    => /\ ~pout.raised
       /\ pout.result = (PaddedOf(pin.version) = PaddedOf(pin.spec))

\* C13 (the claim as stated): parse_version_spec fails for every spec text
\* other than 'latest' whose remainder after the optional prefix is not a
\* dot-separated sequence of one to three non-negative integers.
C13_MalformedRejected ==
    (/\ pout.done
     /\ pout.fn = "parse_version_spec"
     /\ pin.spec # Latest
     /\ ~IsVersionText(Remainder(pin.spec)))
    => pout.raised

\* C14: remove_package(name) deletes the directory of name and nothing else:
\* where update_package calls it, every other package directory, the
\* requested specs and the recorded installed versions (of name and of every
\* other package) are the same after the call as before it; where the remove
\* command calls it, the directories of the other packages are unchanged.
C14_InUpdate ==
    (/\ At("update", "loop")
     /\ Top.todo # <<>>
     /\ get_requested_version(cfgDeps, Head(Top.todo)) \notin {<<>>, << <<>> >>})
    => /\ modules'[Head(Top.todo)].state = "absent"
       /\ \A p \in Pkg \ {Head(Top.todo)} : modules'[p] = modules[p]
       /\ cfgDeps' = cfgDeps
       /\ cfgInst' = cfgInst

C14_InRemove ==
    (~Running /\ cmdsLeft' # cmdsLeft /\ cmd'.kind = "remove")
    => /\ modules'[cmd'.name].state = "absent"
       /\ \A p \in Pkg \ {cmd'.name} : modules'[p] = modules[p]

C14_RemoveFrame == [][C14_InUpdate /\ C14_InRemove]_vars

\* C14 witness: update_package has removed the directory of a package and
\* its installed version is still recorded.
C14_Witness ==
    /\ cmd.kind = "update"
    /\ Len(stack) = 2
    /\ At("install_package", "check")
    /\ modules[Top.name].state = "absent"
    /\ cfgInst[Top.name] # <<>>
    /\ get_requested_version(cfgDeps, Top.name) = <<Top.spec>>

\* C15 (the claim as stated): when the cache file a download returned has a
\* name that ends in neither .zip nor .tar.gz, extraction reports a failure:
\* install_package returns False and records no installed version.
C15_UnsupportedStep ==
    (/\ At("install_package", "fetch")
     /\ netCalls' = netCalls + 1
     /\ lastTry'.kind = "download"
     /\ lastTry'.archive = "unsupported")
    => /\ stack' = Pop
       /\ ~ret'.ok
       /\ ret'.name = Top.name
       /\ cfgInst' = cfgInst

C15_UnsupportedArchiveFails == [][C15_UnsupportedStep]_vars

\* C16 (the claim as stated): when an install_package call made for a
\* declared dependency fails during an add, the top-level install_package
\* does not report success.
C16_DependencyFailureSurfaced ==
    (cmd.kind = "add" /\ cmd.status = "returned" /\ cmd.failed) => ~ret.ok

\* C17 (the claim as stated): when the install_package call of the add
\* command has failed, the command ends with a non-zero exit status.
C17_AddFailureExitsNonZero ==
    (cmd.kind = "add" /\ cmd.status = "returned" /\ ~ret.ok) => exit_status # 0

\* C18 (the claim as stated): within one top-level install_package call no
\* package name is attempted twice: when a nested install_package call for a
\* name has returned, no later nested call for that name goes on to version
\* discovery or fetch.
C18_VisitedOnce ==
    cmd.kind = "add"
    => \A i \in 2..Len(stack) :
         (stack[i].fn = "install_package" /\ stack[i].pc \in {"discover", "fetch"})
         => ret.name # stack[i].name

\* C19: while a command runs, the installed version of a package is written
\* only by the install_package step in which the download and then
\* _extract_package have both succeeded, it is the version selected for that
\* package, and the walk over the package's declared dependencies starts
\* after it; an install_package call that fails or raises before that point
\* leaves the State Store as it was.
C19_WriteAfterFetch ==
    (Running /\ cfgInst' # cfgInst)
    => /\ At("install_package", "fetch")
       /\ lastTry'.kind = "download"
       /\ ~lastTry'.raised
       /\ modules'[Top.name].state = "populated" \/ lastTry'.archive = "unsupported"
       /\ cfgInst' = [cfgInst EXCEPT ![Top.name] = Top.version]
       /\ Len(stack') = Len(stack) + 1
       /\ stack'[Len(stack')].fn = "install_dependencies"
       /\ stack'[Len(stack')].name = Top.name
       /\ stack'[Len(stack')].todo = modules'[Top.name].deps

C19_FailureLeavesStore ==
    (/\ Running
     /\ Top.fn = "install_package"
     /\ Top.pc \in {"check", "discover", "fetch"}
     /\ (stack' = Pop /\ ~ret'.ok) \/ cmd'.status = "raised")
    => cfgInst' = cfgInst /\ cfgDeps' = cfgDeps

C19_RecordedBeforeRecursion ==
    \A i \in 1..Len(stack) :
        stack[i].fn = "install_dependencies"
        => /\ i > 1
           /\ stack[i - 1].fn = "install_package"
           /\ stack[i - 1].name = stack[i].name
           /\ cfgInst[stack[i].name] = stack[i - 1].version

C20_DependenciesSatisfied ==
    (/\ cmd.kind = "add"
     /\ cmd.status = "returned"
     /\ ret.ok
     /\ ret.msg = "installed"
     /\ ~cmd.failed)
    => \A i \in 1..Len(modules[cmd.name].deps) :
         Satisfied(modules[cmd.name].deps[i].name, modules[cmd.name].deps[i].spec)

\* C21 (the claim as stated): for the spec 'latest' install_package selects
\* the highest of the available versions under the (major, minor, patch)
\* order, in whatever order the backend listed them.
C21_LatestIsHighest ==
    \A i \in Frames("install_package", "fetch") :
        (/\ stack[i].spec = Latest
         /\ \A k \in 1..Len(stack[i].available) : IsVersionText(stack[i].available[k]))
        => \A k \in 1..Len(stack[i].available) :
             LexGe(PaddedOf(stack[i].version[1]), PaddedOf(stack[i].available[k]))

\* C22 (the claim as stated): when extraction has failed, the package
\* directory is absent or empty, never partly filled from the failed archive.
C22_FailedExtractStep ==
    (/\ At("install_package", "fetch")
     /\ stack' = Pop
     /\ ret'.msg = "extract failed")
    => modules'[Top.name].state \in {"absent", "empty"}

C22_FailedExtractionWiped == [][C22_FailedExtractStep]_vars

\* C23 (the claim as stated): when the extracted layout is one entry that is
\* a directory, normalization leaves exactly the wrapper's entries directly
\* under the package directory, the wrapper is gone and extraction reports
\* success, whatever the wrapper holds; otherwise the layout is left as it
\* was and extraction reports success.
C23_Normalized ==
    (pout.done /\ pout.fn = "normalize")
    => /\ ~pout.raised
       /\ IF Cardinality(pin.layout) = 1 /\ \A e \in pin.layout : e.dir
          THEN \A w \in pin.layout : pout.result = w.items
          ELSE pout.result = pin.layout

\* C24 (the claim as stated): whenever no command is running, every package
\* the State Store records as installed has a populated package directory.
C24_RecordedIsPopulated ==
    cmd.status \in {"idle", "returned", "raised"}
    => \A p \in Pkg : cfgInst[p] # <<>> => modules[p].state = "populated"

\* version meets spec under the reference definitions: 'latest' always, a
\* range operator by Reference on the zero-padded triples, an exact spec by
\* equal zero-padded triples
MeetsSpec(version, spec) ==
    \/ spec = Latest
    \/ /\ IsVersionText(version)
       /\ IsVersionText(Remainder(spec))
       /\ IF PrefixLen(spec) = 0
          THEN PaddedOf(version) = PaddedOf(spec)
          ELSE Reference(Prefix(spec), PaddedOf(version), PaddedOf(Remainder(spec)))

\* C26: whenever an install_package call returns True, the State Store
\* records for its name a version that meets its spec; and in a call that
\* fetched, the recorded version is a member of the list discovery returned
\* and, for a spec other than 'latest', no member that meets the spec is
\* greater.
C26_ReturnsSatisfied ==
    (/\ Running
     /\ Top.fn \in {"install_package", "install_dependencies"}
     /\ Len(stack') < Len(stack)
     /\ cmd'.status # "raised"
     /\ ret'.ok)
    => /\ ret'.name = (IF Top.fn = "install_package" THEN Top.name
                       ELSE stack[Len(stack) - 1].name)
       /\ cfgInst'[ret'.name] # <<>>
       /\ MeetsSpec(cfgInst'[ret'.name][1], ret'.spec)

C26_FetchedIsGreatest ==
    \A i \in Frames("install_package", "dependencies") :
        /\ cfgInst[stack[i].name] = stack[i].version
        /\ \E k \in 1..Len(stack[i].available) :
             stack[i].available[k] = stack[i].version[1]
        /\ stack[i].spec # Latest
           => /\ MeetsSpec(stack[i].version[1], stack[i].spec)
              /\ \A k \in 1..Len(stack[i].available) :
                   MeetsSpec(stack[i].available[k], stack[i].spec)
                   => LexGe(PaddedOf(stack[i].version[1]),
                            PaddedOf(stack[i].available[k]))

C25_RecordStep ==
    \A i \in 1..NProc :
        (~procs.proc[i].recorded /\ procs'.proc[i].recorded)
        => LET p == procs.proc[i]
           IN  /\ p.cache # <<>>
               /\ cfgDeps' = p.cache[1].deps
               /\ \A q \in Pkg :
                    cfgInst'[q] = IF q = p.name THEN <<p.version>>
                                  ELSE p.cache[1].inst[q]

C25_WholeFileRewritten == [][C25_RecordStep]_vars

\* C25 witness: both processes have recorded, each a different package, and
\* the file holds the record of only one of them.
C25_LostRecord ==
    /\ procs.proc # <<>>
    /\ \A i \in 1..NProc : procs.proc[i].pc = "done" /\ procs.proc[i].recorded
    /\ procs.proc[1].name # procs.proc[2].name
    /\ \E i, j \in 1..NProc :
         /\ i # j
         /\ cfgInst[procs.proc[i].name] = <<>>
         /\ cfgInst[procs.proc[j].name] = <<procs.proc[j].version>>

\* An instance that starts from the default configuration: its project has
\* no file, or a file that lacks the two dependency fields
StartsFromDefault(i) ==
    \/ heap.initial[i].state = "absent"
    \/ /\ heap.initial[i].state = "json"
       /\ heap.initial[i].deps = <<>>
       /\ heap.initial[i].inst = <<>>

\* C27: when all instances start from the default configuration, a call of
\* add_dependency or set_installed_version on one instance leaves what
\* get_dependencies and get_installed_versions return on every other
\* instance as it was.
C27_OtherUnchanged ==
    (/\ heap.initial # <<>>
     /\ \A i \in 1..NInst : StartsFromDefault(i))
    => \A j \in 1..NInst :
         heap'.actor # j
         => /\ get_dependencies(heap', j) = get_dependencies(heap, j)
            /\ get_installed_versions(heap', j) = get_installed_versions(heap, j)

C27_InstancesIndependent == [][C27_OtherUnchanged]_vars

====
